---- MODULE Spec2Model ----
(***************************************************************************)
(* Engine-state simulation and rolling telemetry of the CAT C4.4 digital   *)
(* twin dashboard (helpers.py, app.py).                                    *)
(*                                                                         *)
(* Units.  Sensor values, means and standard deviations are fixed-point    *)
(* hundredths (2.2 g is 220, 78 degC is 7800).  The wall clock `now` counts *)
(* clock ticks, TicksPerSecond to the second, so that int(time.time()) is  *)
(* a real truncation.  Anomaly scores are hundredths (0.90 is 90).         *)
(***************************************************************************)
EXTENDS Integers, Sequences, FiniteSets, TLC

VARIABLES
    now,            \* the wall clock (time.time(), datetime.now()), in clock ticks
    rng,            \* numpy's process-wide generator: [seed, pos]
    mt,             \* which output function the generator has (see Generators)
    session_state,  \* st.session_state of the one session
    rendered,       \* what the last script run displayed
    runs,           \* script runs so far
    observed,       \* every (clock reading, regime) a call of the state clock returned
    reading,        \* the dict handed to the health calculator
    assessment,     \* what the health calculator returned for it
    seeded,         \* the start-up histories generated so far, with their arguments
    appended,       \* the live rows appended so far, oldest first
    loaded          \* the helpers module as imported: its cycle table, and what
                    \* has been called and raised with it

vars ==
    << now, rng, mt, session_state, rendered, runs, observed, reading,
       assessment, seeded, appended, loaded >>

(***************************************************************************)
(* Bounds of the model.                                                    *)
(***************************************************************************)
TicksPerSecond == 2
MaxRuns == 3
MaxCycles == 2
FillRuns == 1001

(***************************************************************************)
(* helpers.py: the cycle table.                                            *)
(***************************************************************************)
SensorOrder ==
    << "oil_temperature", "coolant_temperature", "egt", "oil_pressure",
       "fuel_pressure", "vibration", "rpm" >>

Sensors == { SensorOrder[k] : k \in 1..Len(SensorOrder) }

STATE_CYCLE ==
    << [ state |-> "NORMAL", duration |-> 30,
         sensors |-> [ oil_temperature     |-> <<7800, 200>>,
                       coolant_temperature |-> <<8700, 150>>,
                       egt                 |-> <<37000, 800>>,
                       oil_pressure        |-> <<34000, 1200>>,
                       fuel_pressure       |-> <<182000, 4000>>,
                       vibration           |-> <<220, 15>>,
                       rpm                 |-> <<150000, 4000>> ] ],
       [ state |-> "DEGRADED", duration |-> 20,
         sensors |-> [ oil_temperature     |-> <<9800, 300>>,
                       coolant_temperature |-> <<9500, 200>>,
                       egt                 |-> <<49000, 1500>>,
                       oil_pressure        |-> <<21500, 1800>>,
                       fuel_pressure       |-> <<165000, 6000>>,
                       vibration           |-> <<380, 30>>,
                       rpm                 |-> <<138000, 7000>> ] ],
       [ state |-> "CRITICAL", duration |-> 20,
         sensors |-> [ oil_temperature     |-> <<11200, 400>>,
                       coolant_temperature |-> <<10400, 300>>,
                       egt                 |-> <<56000, 2000>>,
                       oil_pressure        |-> <<17500, 2000>>,
                       fuel_pressure       |-> <<148000, 8000>>,
                       vibration           |-> <<550, 50>>,
                       rpm                 |-> <<118000, 9000>> ] ],
       [ state |-> "RECOVERY", duration |-> 20,
         sensors |-> [ oil_temperature     |-> <<8800, 250>>,
                       coolant_temperature |-> <<9000, 200>>,
                       egt                 |-> <<41000, 1000>>,
                       oil_pressure        |-> <<29000, 1500>>,
                       fuel_pressure       |-> <<174000, 5000>>,
                       vibration           |-> <<280, 20>>,
                       rpm                 |-> <<146000, 5000>> ] ] >>

RECURSIVE SumDurations(_)
SumDurations(k) ==
    IF k = 0 THEN 0 ELSE SumDurations(k - 1) + STATE_CYCLE[k].duration

TOTAL_CYCLE_DURATION == SumDurations(Len(STATE_CYCLE))

(***************************************************************************)
(* The clock.  time.time() is a float of seconds; int() truncates it.      *)
(***************************************************************************)
IntSeconds(t) == t \div TicksPerSecond

\* WalkCycle with the window test off by one (<= for <).
RECURSIVE WalkCycle_inclusive(_, _, _)
WalkCycle_inclusive(i, cumulative, elapsed) ==
    IF i > Len(STATE_CYCLE)
    THEN STATE_CYCLE[1]
    ELSE LET cum == cumulative + STATE_CYCLE[i].duration
         IN  IF elapsed <= cum THEN STATE_CYCLE[i]
             ELSE WalkCycle_inclusive(i + 1, cum, elapsed)

\* WalkCycle with the durations not accumulated (cumulative = for +=).
RECURSIVE WalkCycle_no_accumulate(_, _, _)
WalkCycle_no_accumulate(i, cumulative, elapsed) ==
    IF i > Len(STATE_CYCLE)
    THEN STATE_CYCLE[1]
    ELSE LET cum == STATE_CYCLE[i].duration
         IN  IF elapsed < cum THEN STATE_CYCLE[i]
             ELSE WalkCycle_no_accumulate(i + 1, cum, elapsed)

RECURSIVE WalkCycle(_, _, _)
WalkCycle(i, cumulative, elapsed) ==
    IF i > Len(STATE_CYCLE)
    THEN STATE_CYCLE[1]
    ELSE LET cum == cumulative + STATE_CYCLE[i].duration
         IN  IF elapsed < cum THEN STATE_CYCLE[i]
             ELSE WalkCycle(i + 1, cum, elapsed)

\* The regime kept as simulation state that advances with the calls made,
\* instead of being derived from the clock.
profile_by_call_count(t) ==
    STATE_CYCLE[((Cardinality(observed) \div 30) % Len(STATE_CYCLE)) + 1]

get_current_state_profile(t) ==
    WalkCycle(1, 0, IntSeconds(t) % TOTAL_CYCLE_DURATION)

RECURSIVE WalkRemaining(_, _, _)
WalkRemaining(i, cum, elapsed) ==
    IF i > Len(STATE_CYCLE)
    THEN 10
    ELSE LET c == cum + STATE_CYCLE[i].duration
         IN  IF elapsed < c THEN c - elapsed
             ELSE WalkRemaining(i + 1, c, elapsed)

\* The countdown taken to the end of the cycle instead of the regime.
Remaining_to_cycle_end(t) ==
    TOTAL_CYCLE_DURATION - (IntSeconds(t) % TOTAL_CYCLE_DURATION)

Remaining(t) ==
    WalkRemaining(1, 0, IntSeconds(t) % TOTAL_CYCLE_DURATION)

(***************************************************************************)
(* numpy's generator.  Its output is a fixed function of the seed and of   *)
(* the number of deviates drawn since seeding; which function is not part  *)
(* of this program, so the model is checked against each of a family:      *)
(* deviates (in standard deviations) at the centre, far out in each tail,  *)
(* varying from draw to draw, four deviations out, and one whose deviates  *)
(* for a live row are +5 (oil temperature), -7 (oil pressure) and +7       *)
(* (vibration).                                                            *)
(***************************************************************************)
Generators ==
    << <<0>>, <<100>>, <<-100>>, <<12>>, <<0, 1, -1, 2, -2>>, <<4, -4>>,
       <<5, 0, 0, -7, 0, 7, 0>> >>

StandardNormal(g, k) ==
    LET table == Generators[mt]
    IN  table[((g.seed + g.pos + k) % Len(table)) + 1]

\* generate_data without its np.random.seed call: the generator goes on from
\* wherever it is.
np_random_unseeded(seed) == rng

np_random_seed(seed) == [seed |-> seed, pos |-> 0]

\* np.random.normal called with loc and scale exchanged.
np_random_normal_swapped(g, k, mean, std) == std + mean * StandardNormal(g, k)

np_random_normal(g, k, mean, std) == mean + std * StandardNormal(g, k)

Drawn(g, count) == [g EXCEPT !.pos = g.pos + count]

\* np.clip with the upper bound forgotten.
np_clip_lower_only(x, lo, hi) == IF x < lo THEN lo ELSE x

np_clip(x, lo, hi) == IF x < lo THEN lo ELSE IF x > hi THEN hi ELSE x

IndexOf(sensor) == CHOOSE k \in 1..Len(SensorOrder) : SensorOrder[k] = sensor

generate_live_reading(state_profile, g) ==
    [ s \in Sensors |->
        np_random_normal(g, IndexOf(s) - 1,
                         state_profile.sensors[s][1], state_profile.sensors[s][2]) ]

(***************************************************************************)
(* generate_data: the seeded start-up history.  np.sin and np.cos are      *)
(* computed in hundredths by Bhaskara's rational approximation.            *)
(***************************************************************************)
HalfWave100(a, m) ==
    IF m = 0 THEN 0
    ELSE (1600 * a * (m - a)) \div (5 * m * m - 4 * a * (m - a))

Sin100(i, n) ==
    LET m == n - 1
    IN  IF m = 0 THEN 0
        ELSE LET h == (4 * i) \div m
                 a == (4 * i) % m
             IN  IF h % 2 = 0 THEN HalfWave100(a, m) ELSE 0 - HalfWave100(a, m)

Cos100(i, n) ==
    LET m == 2 * (n - 1)
    IN  IF m = 0 THEN 100
        ELSE LET h == (8 * i + (n - 1)) \div m
                 a == (8 * i + (n - 1)) % m
             IN  IF h % 2 = 0 THEN HalfWave100(a, m) ELSE 0 - HalfWave100(a, m)

Linspace(i, n, top) == IF n = 1 THEN 0 ELSE (top * i) \div (n - 1)

generate_data(seed, n_samples, t) ==
    LET g     == np_random_seed(seed)
        start == t - 10 * n_samples * TicksPerSecond
        z(col, i) == StandardNormal(g, col * n_samples + i)
        Row(i) ==
          [ timestamp           |-> start + 10 * i * TicksPerSecond,
            oil_temperature     |->
                np_clip(7500 + 15 * Sin100(i, n_samples) + 200 * z(0, i)
                        + Linspace(i, n_samples, 300), 2000, 12000),
            coolant_temperature |->
                np_clip(8500 + 10 * Sin100(i, n_samples) + 150 * z(1, i),
                        3000, 11000),
            egt                 |->
                np_clip(35000 + 50 * Sin100(i, n_samples) + 1000 * z(2, i)
                        + Linspace(i, n_samples, 900), 20000, 65000),
            oil_pressure        |->
                np_clip(35000 + 50 * Cos100(i, n_samples) + 1500 * z(3, i),
                        0, 60000),
            fuel_pressure       |->
                np_clip(180000 + 200 * Cos100(i, n_samples) + 5000 * z(4, i),
                        0, 250000),
            vibration           |->
                np_clip(250 + (Sin100(i, n_samples) \div 2) + 20 * z(5, i)
                        + Linspace(i, n_samples, 45), 0, 5000),
            rpm                 |->
                np_clip(150000 + 300 * Sin100(i, n_samples) + 5000 * z(6, i),
                        60000, 220000) ]
    IN  [ i \in 1..n_samples |-> Row(i - 1) ]

(***************************************************************************)
(* append_live_reading: one clamped live row, then the rolling trim.       *)
(***************************************************************************)
\* The concatenation returned untrimmed.
df_untrimmed(df, k) == df

\* head for tail: the newest rows dropped instead of the oldest.
df_head(df, k) == IF Len(df) > k THEN SubSeq(df, 1, k) ELSE df

df_tail(df, k) == IF Len(df) > k THEN SubSeq(df, Len(df) - k + 1, Len(df)) ELSE df

\* The live row stamped with datetime.utcnow() where the seeded rows are
\* stamped from datetime.now(), one hour ahead of UTC.
LiveRow_utcnow(r, t) ==
    [ timestamp           |-> t - 3600 * TicksPerSecond,
      oil_temperature     |-> np_clip(r["oil_temperature"], 2000, 12000),
      coolant_temperature |-> np_clip(r["coolant_temperature"], 3000, 11000),
      egt                 |-> np_clip(r["egt"], 20000, 65000),
      oil_pressure        |-> np_clip(r["oil_pressure"], 0, 60000),
      fuel_pressure       |-> np_clip(r["fuel_pressure"], 0, 250000),
      vibration           |-> np_clip(r["vibration"], 0, 5000),
      rpm                 |-> np_clip(r["rpm"], 60000, 220000) ]

LiveRow(r, t) ==
    [ timestamp           |-> t,
      oil_temperature     |-> np_clip(r["oil_temperature"], 2000, 12000),
      coolant_temperature |-> np_clip(r["coolant_temperature"], 3000, 11000),
      egt                 |-> np_clip(r["egt"], 20000, 65000),
      oil_pressure        |-> np_clip(r["oil_pressure"], 0, 60000),
      fuel_pressure       |-> np_clip(r["fuel_pressure"], 0, 250000),
      vibration           |-> np_clip(r["vibration"], 0, 5000),
      rpm                 |-> np_clip(r["rpm"], 60000, 220000) ]

\* pd.concat with its two frames exchanged: the new row goes in front.
append_live_reading_in_front(df, state_profile, g, t) ==
    df_tail(<< LiveRow(generate_live_reading(state_profile, g), t) >> \o df, 1000)

append_live_reading(df, state_profile, g, t) ==
    df_tail(df \o << LiveRow(generate_live_reading(state_profile, g), t) >>, 1000)

(***************************************************************************)
(* HealthStatusCalculator.  A float is kept as its value in hundredths and *)
(* the side on which IEEE-754 double rounding left it (ulps: -1 just       *)
(* below, 0 exact, 1 just above): 500 * (1.0 - 0.90) is                    *)
(* 49.999999999999986, not 50.                                             *)
(***************************************************************************)
dict_get(data, key, default) == IF key \in DOMAIN data THEN data[key] ELSE default

\* The thresholds tested inclusively (>= and <=).
get_health_status_inclusive(data) ==
    LET c1 == IF dict_get(data, "oil_temperature", 0) >= 10000 THEN 1 ELSE 0
        c2 == IF dict_get(data, "egt", 0) >= 50000 THEN 1 ELSE 0
        c3 == IF dict_get(data, "vibration", 0) >= 400 THEN 1 ELSE 0
        c4 == IF dict_get(data, "oil_pressure", 0) <= 20000 THEN 1 ELSE 0
        anomaly_count == c1 + c2 + c3 + c4
    IN  IF anomaly_count >= 3 THEN <<"CRITICAL", 90>>
        ELSE IF anomaly_count >= 2 THEN <<"DEGRADED", 60>>
        ELSE IF anomaly_count = 1 THEN <<"DEGRADED", 45>>
        ELSE <<"NORMAL", 15>>

get_health_status(data) ==
    LET c1 == IF dict_get(data, "oil_temperature", 0) > 10000 THEN 1 ELSE 0
        c2 == IF dict_get(data, "egt", 0) > 50000 THEN 1 ELSE 0
        c3 == IF dict_get(data, "vibration", 0) > 400 THEN 1 ELSE 0
        c4 == IF dict_get(data, "oil_pressure", 0) < 20000 THEN 1 ELSE 0
        anomaly_count == c1 + c2 + c3 + c4
    IN  IF anomaly_count >= 3 THEN <<"CRITICAL", 90>>
        ELSE IF anomaly_count >= 2 THEN <<"DEGRADED", 60>>
        ELSE IF anomaly_count = 1 THEN <<"DEGRADED", 45>>
        ELSE <<"NORMAL", 15>>

\* The scores s (hundredths) for which the double 500 * (1.0 - s/100) lies
\* below, respectively above, the exact product.
RoundsBelow ==
    {7, 32, 33, 34, 54, 55, 56, 66, 67, 68, 77, 78, 79, 80, 81, 89, 90, 91, 92, 93}

RoundsAbove ==
    {18, 41, 42, 43, 57, 58, 59, 69, 70, 71, 82, 83, 84, 85, 94, 95, 96, 97, 98, 99}

Float(hundredths, ulps) == [hundredths |-> hundredths, ulps |-> ulps]

FloatLess(x, hours) ==
    \/ x.hundredths < 100 * hours
    \/ x.hundredths = 100 * hours /\ x.ulps < 0

\* calculate_rul without the max(..., 0).
calculate_rul_unclamped(anomaly_score) ==
    Float(500 * (100 - anomaly_score),
          IF anomaly_score \in RoundsBelow THEN -1
          ELSE IF anomaly_score \in RoundsAbove THEN 1 ELSE 0)

\* calculate_rul in exact decimal arithmetic, without the rounding of the
\* double 1.0 - anomaly_score.
calculate_rul_exact(anomaly_score) ==
    IF 500 * (100 - anomaly_score) < 0 THEN Float(0, 0)
    ELSE Float(500 * (100 - anomaly_score), 0)

calculate_rul(anomaly_score) ==
    LET product == Float(500 * (100 - anomaly_score),
                         IF anomaly_score \in RoundsBelow THEN -1
                         ELSE IF anomaly_score \in RoundsAbove THEN 1 ELSE 0)
    IN  IF FloatLess(product, 0) THEN Float(0, 0) ELSE product

get_maintenance_recommendation(rul) ==
    IF FloatLess(rul, 50) THEN "Immediate maintenance required"
    ELSE IF FloatLess(rul, 150) THEN "Schedule maintenance soon"
    ELSE IF FloatLess(rul, 300) THEN "Monitor closely - plan ahead"
    ELSE "Continue normal operation"

HealthKeys == {"oil_temperature", "egt", "vibration", "oil_pressure"}

NoAssessment == [status |-> "none", score |-> 0, rul |-> Float(0, 0), rec |-> "none"]

Assess(data) ==
    LET health == get_health_status(data)
        rul    == calculate_rul(health[2])
    IN  [ status |-> health[1], score |-> health[2], rul |-> rul,
          rec |-> get_maintenance_recommendation(rul) ]

(***************************************************************************)
(* app.py: one script run of the session.                                  *)
(***************************************************************************)
StartTimes == { (10019 * TicksPerSecond) + (TicksPerSecond - 1),
                (10059 * TicksPerSecond) + (TicksPerSecond - 1) }

SampleSizes == {0, 2, 999, 1000}

Sleeps == {0, 10}

Lags == { <<0, 0>>, <<1, 1>> }

Pages == {"Dashboard", "Monitoring"}

NothingRendered ==
    [ state |-> "none", elapsed |-> 0, remaining |-> 0, page |-> "none",
      health |-> NoAssessment ]

(***************************************************************************)
(* The helpers module as a script run finds it.  STATE_CYCLE is a module    *)
(* constant and TOTAL_CYCLE_DURATION is computed from it when the module is *)
(* imported; the operators below are the state clock, the live reading and  *)
(* the countdown over whatever table the module holds.                      *)
(***************************************************************************)
RECURSIVE SumDurationsIn(_, _)
SumDurationsIn(cycle, k) ==
    IF k = 0 THEN 0 ELSE SumDurationsIn(cycle, k - 1) + cycle[k].duration

RECURSIVE WalkCycleIn(_, _, _, _)
WalkCycleIn(cycle, i, cumulative, elapsed) ==
    IF i > Len(cycle)
    THEN cycle[1]
    ELSE LET cum == cumulative + cycle[i].duration
         IN  IF elapsed < cum THEN cycle[i]
             ELSE WalkCycleIn(cycle, i + 1, cum, elapsed)

RECURSIVE WalkRemainingIn(_, _, _, _)
WalkRemainingIn(cycle, i, cum, elapsed) ==
    IF i > Len(cycle)
    THEN 10
    ELSE LET c == cum + cycle[i].duration
         IN  IF elapsed < c THEN c - elapsed
             ELSE WalkRemainingIn(cycle, i + 1, c, elapsed)

\* dict.items() yields the sensors a profile has, in the order they were written.
ItemsBefore(state_profile, sensor) ==
    Cardinality({ k \in 1..(IndexOf(sensor) - 1) :
                    SensorOrder[k] \in DOMAIN state_profile.sensors })

generate_live_reading_items(state_profile, g) ==
    [ s \in DOMAIN state_profile.sensors |->
        np_random_normal(g, ItemsBefore(state_profile, s),
                         state_profile.sensors[s][1], state_profile.sensors[s][2]) ]

ImportedHelpers(cycle) ==
    [ STATE_CYCLE          |-> cycle,
      TOTAL_CYCLE_DURATION |-> SumDurationsIn(cycle, Len(cycle)),
      imported             |-> TRUE,
      raised               |-> "none",
      profile_calls        |-> 0,
      live_readings        |-> 0,
      appends              |-> 0 ]

Idle ==
    /\ rng = [seed |-> 0, pos |-> 0]
    /\ session_state = [k \in {} |-> 0]
    /\ rendered = NothingRendered
    /\ runs = 0
    /\ observed = {}
    /\ assessment = NoAssessment
    /\ seeded = <<>>
    /\ appended = <<>>
    /\ loaded = ImportedHelpers(STATE_CYCLE)

Init ==
    /\ now \in StartTimes
    /\ mt \in 1..Len(Generators)
    /\ reading = [k \in {} |-> 0]
    /\ Idle

\* One run of the script, top to bottom: session-state initialisation on the
\* first run, the live append, the sidebar countdown, the page, the sleep before
\* the rerun.  The clock is read where the code reads it and may have advanced
\* in between (lag); a widget interaction cuts the sleep short.  seeded and
\* appended record what was generated and appended.
Script(sizes, lags, sleeps, pages) ==
    \E n \in (IF "sensor_data" \in DOMAIN session_state THEN {1000} ELSE sizes),
       lag \in lags, sleep \in sleeps, page \in pages :
      LET fresh   == "sensor_data" \notin DOMAIN session_state
          gen     == IF fresh THEN [seed |-> 42] ELSE session_state.generator
          df      == IF fresh THEN generate_data(gen.seed, n, now)
                     ELSE session_state.sensor_data
          g       == IF fresh THEN Drawn(np_random_seed(gen.seed), 7 * n) ELSE rng
          profile == get_current_state_profile(now)
          t2      == now + lag[1]
          t3      == t2 + lag[2]
          data    == append_live_reading(df, profile, g, t2)
          latest  == data[Len(data)]
      IN  /\ session_state' = [ sensor_data |-> data, generator |-> gen ]
          /\ rng' = Drawn(g, 7)
          /\ rendered' =
                [ state     |-> profile.state,
                  elapsed   |-> IntSeconds(t3) % TOTAL_CYCLE_DURATION,
                  remaining |-> Remaining(t3),
                  page      |-> page,
                  health    |->
                     IF page = "Monitoring"
                     THEN Assess([ k \in HealthKeys |-> latest[k] ])
                     ELSE NoAssessment ]
          /\ now' = t3 + sleep * TicksPerSecond
          /\ seeded' = IF fresh
                       THEN << [seed |-> gen.seed, n |-> n, at |-> now, data |-> df] >>
                       ELSE seeded
          /\ appended' = Append(appended,
                                LiveRow(generate_live_reading(profile, g), t2))
          /\ runs' = runs + 1
          /\ UNCHANGED <<mt, observed, reading, assessment, loaded>>

ScriptRun ==
    /\ runs < MaxRuns
    /\ Script(SampleSizes, Lags, Sleeps, Pages)

Next == ScriptRun

Spec == Init /\ [][Next]_vars

(***************************************************************************)
(* The state clock on its own: the clock advances a second at a time and   *)
(* each second the regime and the countdown are computed as a script run   *)
(* computes them.  Both depend on the clock only through                   *)
(* int(time.time()) % TOTAL_CYCLE_DURATION, so the clock is kept modulo a  *)
(* whole number of cycles; the start fixes the sub-second phase.           *)
(***************************************************************************)
ClockHorizon == TOTAL_CYCLE_DURATION * TicksPerSecond * MaxCycles

InitClock ==
    /\ now \in 0..(TicksPerSecond - 1)
    /\ mt = 1
    /\ reading = [k \in {} |-> 0]
    /\ Idle

ClockSecond ==
    /\ now' = (now + TicksPerSecond) % ClockHorizon
    /\ rendered' = [ NothingRendered EXCEPT
                       !.state = get_current_state_profile(now').state,
                       !.elapsed = IntSeconds(now') % TOTAL_CYCLE_DURATION,
                       !.remaining = Remaining(now') ]
    /\ observed' = observed \cup
                     { [ at    |-> now',
                         state |-> get_current_state_profile(now').state,
                         again |-> \E p \in observed : p.at = now' ] }
    /\ UNCHANGED <<rng, mt, session_state, runs, reading, assessment, seeded, appended, loaded>>

NextClock == ClockSecond

SpecClock == InitClock /\ [][NextClock]_vars

\* Time keeps advancing.
SpecClockLive == SpecClock /\ WF_vars(ClockSecond)

(***************************************************************************)
(* The health calculator on its own, on dicts around its thresholds.       *)
(***************************************************************************)
HealthDict(oil_t, egt, vib, oil_p) ==
    [ oil_temperature |-> oil_t, egt |-> egt, vibration |-> vib, oil_pressure |-> oil_p ]

EvalInputs ==
    { HealthDict(a, b, c, d) :
        a \in {9999, 10000, 10001}, b \in {49999, 50000, 50001},
        c \in {399, 400, 401}, d \in {19999, 20000, 20001} }
    \cup { HealthDict(10500, 52000, 100, 25000), HealthDict(7800, 37000, 220, 34000) }
    \cup { [k \in {} |-> 0], [oil_temperature |-> 7800, egt |-> 37000, vibration |-> 220] }

Scores == {0, 15, 40, 45, 60, 70, 90, 100, 120}

InitEval ==
    /\ now = 0
    /\ mt = 1
    /\ reading \in EvalInputs
    /\ Idle

Evaluate ==
    /\ assessment = NoAssessment
    /\ assessment' = Assess(reading)
    /\ UNCHANGED << now, rng, mt, session_state, rendered, runs, observed, reading,
                    seeded, appended, loaded >>

\* calculate_rul and get_maintenance_recommendation called with a score directly.
Estimate ==
    /\ assessment = NoAssessment
    /\ \E s \in Scores :
         assessment' = [ status |-> "unclassified", score |-> s,
                         rul |-> calculate_rul(s),
                         rec |-> get_maintenance_recommendation(calculate_rul(s)) ]
    /\ UNCHANGED << now, rng, mt, session_state, rendered, runs, observed, reading,
                    seeded, appended, loaded >>

NextEval == Evaluate \/ Estimate

SpecEval == InitEval /\ [][NextEval]_vars

(***************************************************************************)
(* generate_data on its own: two runs, each with its seed and size, at     *)
(* the wall-clock time it happens to start.                                *)
(***************************************************************************)
Seeds == {42, 7}

SeedSizes == {0, 3, 1000}

Waits == {0, 10}

InitSeed ==
    /\ now \in StartTimes
    /\ mt \in 1..Len(Generators)
    /\ reading = [k \in {} |-> 0]
    /\ Idle

SeedRun ==
    /\ Len(seeded) < 2
    /\ \E seed \in Seeds, n \in SeedSizes, wait \in Waits :
         /\ seeded' = Append(seeded, [ seed |-> seed, n |-> n, at |-> now,
                                       data |-> generate_data(seed, n, now) ])
         /\ rng' = Drawn(np_random_seed(seed), 7 * n)
         /\ now' = now + wait * TicksPerSecond
    /\ UNCHANGED << mt, session_state, rendered, runs, observed, reading, assessment,
                    appended, loaded >>

NextSeed == SeedRun

SpecSeed == InitSeed /\ [][NextSeed]_vars

(***************************************************************************)
(* The buffer filled from empty (and from one row short of full), a        *)
(* refresh every ten seconds, until it has overflowed; the generator is   *)
(* the one whose deviates vary from draw to draw.                          *)
(***************************************************************************)
InitFill ==
    /\ now \in StartTimes
    /\ mt = 5
    /\ reading = [k \in {} |-> 0]
    /\ Idle

FillRun ==
    /\ runs < FillRuns
    /\ Script({0, 999}, {<<0, 0>>}, {10}, {"Monitoring"})

NextFill == FillRun

SpecFill == InitFill /\ [][NextFill]_vars

(***************************************************************************)
(* The start of the process over a cycle table: helpers is imported, then  *)
(* the script runs.  The tables are the one of the source, that table with *)
(* a sensor missing from one regime (the first, the last), and that table  *)
(* with every duration 0, so that the durations sum to 0.                  *)
(***************************************************************************)
WithoutSensor(cycle, i, sensor) ==
    [ cycle EXCEPT ![i].sensors = [ s \in (DOMAIN @) \ {sensor} |-> @[s] ] ]

CycleTables ==
    { STATE_CYCLE,
      WithoutSensor(STATE_CYCLE, 1, "oil_temperature"),
      WithoutSensor(STATE_CYCLE, Len(STATE_CYCLE), "rpm"),
      [ i \in 1..Len(STATE_CYCLE) |-> [ STATE_CYCLE[i] EXCEPT !.duration = 0 ] ] }

ConfigStarts == { 5 * k * TicksPerSecond : k \in 0..17 }

InitConfig ==
    /\ now \in ConfigStarts
    /\ mt = 1
    /\ reading = [k \in {} |-> 0]
    /\ rng = [seed |-> 0, pos |-> 0]
    /\ session_state = [k \in {} |-> 0]
    /\ rendered = NothingRendered
    /\ runs = 0
    /\ observed = {}
    /\ assessment = NoAssessment
    /\ seeded = <<>>
    /\ appended = <<>>
    /\ \E cycle \in CycleTables :
         loaded = [ ImportedHelpers(cycle) EXCEPT !.imported = FALSE,
                                                  !.TOTAL_CYCLE_DURATION = 0 ]

\* import helpers: the module body runs, TOTAL_CYCLE_DURATION is summed.
ImportHelpers ==
    /\ ~ loaded.imported
    /\ loaded' = ImportedHelpers(loaded.STATE_CYCLE)
    /\ UNCHANGED << now, rng, mt, session_state, rendered, runs, observed, reading,
                    assessment, seeded, appended >>

\* One run of the script over the imported table, on the Dashboard page with
\* the full sleep.  An exception ends the run where it is raised: the modulo
\* by a zero TOTAL_CYCLE_DURATION inside get_current_state_profile, or the
\* lookup of a sensor the live reading does not have inside append_live_reading.
ConfigRun ==
    /\ loaded.imported /\ loaded.raised = "none"
    /\ runs < MaxRuns
    /\ LET fresh   == "sensor_data" \notin DOMAIN session_state
           gen     == IF fresh THEN [seed |-> 42] ELSE session_state.generator
           df      == IF fresh THEN generate_data(gen.seed, 2, now)
                      ELSE session_state.sensor_data
           g       == IF fresh THEN Drawn(np_random_seed(gen.seed), 7 * 2) ELSE rng
           cycle   == loaded.STATE_CYCLE
           total   == loaded.TOTAL_CYCLE_DURATION
           profile == WalkCycleIn(cycle, 1, 0, IntSeconds(now) % total)
           r       == generate_live_reading_items(profile, g)
           data    == df_tail(df \o << LiveRow(r, now) >>, 1000)
       IN  /\ seeded' = IF fresh
                        THEN << [seed |-> gen.seed, n |-> 2, at |-> now, data |-> df] >>
                        ELSE seeded
           /\ runs' = runs + 1
           /\ IF total = 0
              THEN /\ loaded' = [ loaded EXCEPT !.profile_calls = @ + 1,
                                                !.raised = "ZeroDivisionError" ]
                   /\ session_state' = [ sensor_data |-> df, generator |-> gen ]
                   /\ rng' = g
                   /\ UNCHANGED << now, rendered, appended >>
              ELSE IF ~ (Sensors \subseteq DOMAIN r)
              THEN /\ loaded' = [ loaded EXCEPT !.profile_calls = @ + 1,
                                                !.live_readings = @ + 1,
                                                !.raised = "KeyError" ]
                   /\ session_state' = [ sensor_data |-> df, generator |-> gen ]
                   /\ rng' = Drawn(g, Cardinality(DOMAIN r))
                   /\ UNCHANGED << now, rendered, appended >>
              ELSE /\ loaded' = [ loaded EXCEPT !.profile_calls = @ + 1,
                                                !.live_readings = @ + 1,
                                                !.appends = @ + 1 ]
                   /\ session_state' = [ sensor_data |-> data, generator |-> gen ]
                   /\ rng' = Drawn(g, 7)
                   /\ rendered' =
                        [ state     |-> profile.state,
                          elapsed   |-> IntSeconds(now) % total,
                          remaining |-> WalkRemainingIn(cycle, 1, 0,
                                                        IntSeconds(now) % total),
                          page      |-> "Dashboard",
                          health    |-> NoAssessment ]
                   /\ appended' = Append(appended, LiveRow(r, now))
                   /\ now' = now + 10 * TicksPerSecond
    /\ UNCHANGED << mt, observed, reading, assessment >>

NextConfig == ImportHelpers \/ ConfigRun

SpecConfig == InitConfig /\ [][NextConfig]_vars

(***************************************************************************)
(* Properties.                                                             *)
(***************************************************************************)
HasHistory == "sensor_data" \in DOMAIN session_state

History == session_state.sensor_data

\* C1: in every state the session can be in after seeding and any number of
\* script runs, the telemetry history holds at most 1000 readings.
C1_HistoryWithinCapacity == HasHistory => Len(History) <= 1000

\* A full seeded history has been appended to twice.
C1_Witness ==
    /\ HasHistory /\ runs >= 2 /\ seeded[1].n = 1000
    /\ Len(History) = 1000

\* C2: eviction is FIFO: after k appends to the seeded history h the history
\* is the last min(len(h) + k, 1000) elements of h followed by the k appended
\* rows, in order.
C2_FifoEviction ==
    HasHistory =>
        LET all  == seeded[1].data \o appended
            keep == IF Len(all) < 1000 THEN Len(all) ELSE 1000
        IN  History = SubSeq(all, Len(all) - keep + 1, Len(all))

\* A history of 1000 (999 seeded rows and one live row) has been appended to:
\* the oldest seeded row is gone, the second is now the oldest, and the two
\* live rows are the newest, in the order they were appended.
C2_Witness ==
    /\ HasHistory /\ seeded[1].n = 999 /\ Len(appended) = 2
    /\ Len(History) = 1000
    /\ History[1] = seeded[1].data[2]
    /\ History[999] = appended[1] /\ History[1000] = appended[2]

RegimeNames == {"NORMAL", "DEGRADED", "CRITICAL", "RECOVERY"}

C4_RegimeWindows ==
    rendered.state # "none" =>
        LET elapsed == (now \div TicksPerSecond) % 90
        IN  /\ TOTAL_CYCLE_DURATION = 90
            /\ rendered.state =
                 IF elapsed <= 29 THEN "NORMAL"
                 ELSE IF elapsed <= 49 THEN "DEGRADED"
                 ELSE IF elapsed <= 69 THEN "CRITICAL"
                 ELSE "RECOVERY"

\* now = 90 has wrapped to NORMAL.
C4_Witness == (now \div TicksPerSecond) = 90 /\ rendered.state = "NORMAL"

RegimeAfter(r) ==
    CASE r = "NORMAL"   -> "DEGRADED"
      [] r = "DEGRADED" -> "CRITICAL"
      [] r = "CRITICAL" -> "RECOVERY"
      [] r = "RECOVERY" -> "NORMAL"

\* C5: from one second to the next the regime stays or moves to the next
\* regime of NORMAL -> DEGRADED -> CRITICAL -> RECOVERY -> NORMAL, and while
\* time keeps advancing every regime is entered again and again.
C5_CycleOrder ==
    /\ [][rendered.state # "none" =>
            rendered'.state \in {rendered.state, RegimeAfter(rendered.state)}]_vars
    /\ \A r \in RegimeNames :
         []<>(rendered.state # r) /\ []<>(rendered.state = r)

\* RECOVERY has just given way to NORMAL for the second time round.
C5_Witness ==
    /\ rendered.state = "NORMAL" /\ rendered.remaining = 30
    /\ (now \div TicksPerSecond) = 90

\* C6: the countdown is in 1..total_duration; a second later it is one less
\* if the regime is the same, and the full duration of the new regime if not.
C6_Countdown ==
    /\ [](rendered.state # "none" => rendered.remaining \in 1..90)
    /\ [][rendered.state # "none" =>
            IF rendered'.state = rendered.state
            THEN rendered'.remaining = rendered.remaining - 1
            ELSE rendered'.remaining =
                    (IF rendered'.state = "NORMAL" THEN 30 ELSE 20)]_vars

\* The countdown has just been reset on entering CRITICAL.
C6_Witness == rendered.state = "CRITICAL" /\ rendered.remaining = 20

InClampRange(row) ==
    /\ row.oil_temperature \in 2000..12000
    /\ row.coolant_temperature \in 3000..11000
    /\ row.egt \in 20000..65000
    /\ row.oil_pressure \in 0..60000
    /\ row.fuel_pressure \in 0..250000
    /\ row.vibration \in 0..5000
    /\ row.rpm \in 60000..220000

\* C7: every reading of the history, seeded or live, has every sensor inside
\* its clamp range.
C7_ReadingsClamped ==
    /\ HasHistory => \A i \in 1..Len(History) : InClampRange(History[i])
    /\ \A i \in 1..Len(appended) : InClampRange(appended[i])

\* A seeded row and a live row that the clamp cut off are in the history.
C7_Witness ==
    /\ HasHistory /\ seeded[1].n = 999 /\ runs = 1
    /\ History[1].oil_temperature = 12000
    /\ History[Len(History)].rpm = 220000
    /\ History[Len(History)] = appended[1]

\* C8: evaluate classifies by the number c of conditions oil_temperature > 100,
\* egt > 500, vibration > 4, oil_pressure < 200 that hold: c >= 3 CRITICAL 0.90,
\* c = 2 DEGRADED 0.60, c = 1 DEGRADED 0.45, c = 0 NORMAL 0.15.
C8_Classification ==
    assessment.status \notin {"none", "unclassified"} =>
        /\ assessment.status \in {"NORMAL", "DEGRADED", "CRITICAL"}
        /\ assessment.score \in 0..100
        /\ DOMAIN reading = HealthKeys =>
             LET c == Cardinality({ k \in HealthKeys :
                         \/ k = "oil_temperature" /\ reading[k] > 10000
                         \/ k = "egt" /\ reading[k] > 50000
                         \/ k = "vibration" /\ reading[k] > 400
                         \/ k = "oil_pressure" /\ reading[k] < 20000 })
             IN  <<assessment.status, assessment.score>> =
                    IF c >= 3 THEN <<"CRITICAL", 90>>
                    ELSE IF c = 2 THEN <<"DEGRADED", 60>>
                    ELSE IF c = 1 THEN <<"DEGRADED", 45>>
                    ELSE <<"NORMAL", 15>>

\* Two conditions hold and the other two sit exactly on their thresholds.
C8_Witness ==
    /\ reading = HealthDict(10001, 50001, 400, 20000)
    /\ assessment.status = "DEGRADED" /\ assessment.score = 60

\* C9: rul_hours is max(500 * (1 - anomaly_score), 0), never negative, and
\* the recommendation is the first band of rul < 50, < 150, < 300, otherwise;
\* count 2 gives 200 h and "monitor closely", count 0 gives 425 h and
\* "continue normal operation".
C9_RulAndRecommendation ==
    assessment.status # "none" =>
        LET rul == assessment.rul
            exact == 500 * (100 - assessment.score)
            below(h) == \/ rul.hundredths < 100 * h
                        \/ rul.hundredths = 100 * h /\ rul.ulps < 0
        IN  /\ rul.hundredths = IF exact > 0 THEN exact ELSE 0
            /\ ~ below(0)
            /\ assessment.rec =
                 IF below(50) THEN "Immediate maintenance required"
                 ELSE IF below(150) THEN "Schedule maintenance soon"
                 ELSE IF below(300) THEN "Monitor closely - plan ahead"
                 ELSE "Continue normal operation"
            /\ assessment.score = 60 =>
                 /\ rul = Float(20000, 0)
                 /\ assessment.rec = "Monitor closely - plan ahead"
            /\ assessment.score = 15 =>
                 /\ rul = Float(42500, 0)
                 /\ assessment.rec = "Continue normal operation"

\* The scenario reading with anomaly count 2 has been evaluated.
C9_Witness ==
    /\ reading = HealthDict(10500, 52000, 100, 25000)
    /\ assessment.status = "DEGRADED" /\ assessment.score = 60
    /\ assessment.rul = Float(20000, 0)

SensorFields(row) == [ s \in Sensors |-> row[s] ]

SameArguments(a, b) == a.seed = b.seed /\ a.n = b.n

Evaluated == assessment.status \notin {"none", "unclassified"}

\* C11: querying an empty history is not an error: the tail of an empty
\* history is the empty sequence, and evaluating with no reading available
\* gives a neutral "no data" status, none of NORMAL, DEGRADED and CRITICAL.
C11_EmptyQueryIsNeutral ==
    /\ df_tail(<< >>, 100) = << >>
    /\ (DOMAIN reading = {} /\ Evaluated) =>
          assessment.status \notin {"NORMAL", "DEGRADED", "CRITICAL"}

\* A cycle table is well formed when every regime defines all seven sensors
\* and the durations sum to more than 0.
WellFormed(cycle) ==
    /\ \A i \in 1..Len(cycle) : Sensors \subseteq DOMAIN cycle[i].sensors
    /\ SumDurationsIn(cycle, Len(cycle)) > 0

C13_TimestampsNonDecreasing ==
    HasHistory =>
        \A i \in 1..(Len(History) - 1) :
            History[i].timestamp <= History[i + 1].timestamp

\* A seeded history of two readings and two live readings: the junction is a
\* strict step, the two live readings carry the same timestamp.
C13_Witness ==
    /\ HasHistory /\ Len(seeded) = 1 /\ seeded[1].n = 2 /\ Len(appended) = 2
    /\ History = seeded[1].data \o appended
    /\ History[2].timestamp < History[3].timestamp
    /\ History[3].timestamp = History[4].timestamp

\* The last run was made while RECOVERY was the active regime and showed the
\* health of the reading it appended.
RecoveryAssessed == rendered.state = "RECOVERY" /\ rendered.page = "Monitoring"

\* C14 as claimed: every reading synthesized while the active regime is
\* RECOVERY, whatever the noise drawn, is classified NORMAL or DEGRADED after
\* clamping, never CRITICAL and never RECOVERY.
C14_RecoveryNeverCritical ==
    RecoveryAssessed => rendered.health.status \in {"NORMAL", "DEGRADED"}

\* C14 as the code has it: a reading synthesized while RECOVERY is active is
\* classified NORMAL, DEGRADED or CRITICAL, never RECOVERY; it is NORMAL
\* whenever every deviate drawn is within four standard deviations.
C14_RecoveryClassification ==
    RecoveryAssessed =>
        LET table == Generators[mt]
        IN  /\ rendered.health.status \in {"NORMAL", "DEGRADED", "CRITICAL"}
            /\ (\A k \in 1..Len(table) : table[k] >= -4 /\ table[k] <= 4) =>
                  rendered.health.status = "NORMAL"

\* A RECOVERY reading drawn +5, -7 and +7 standard deviations out in oil
\* temperature, oil pressure and vibration has been classified CRITICAL.
C14_Witness ==
    /\ RecoveryAssessed
    /\ mt = 7
    /\ History[Len(History)].oil_temperature = 8800 + 5 * 250
    /\ History[Len(History)].oil_pressure = 29000 - 7 * 1500
    /\ History[Len(History)].vibration = 280 + 7 * 20
    /\ rendered.health.status = "CRITICAL"

ClampRange ==
    [ oil_temperature     |-> <<2000, 12000>>,
      coolant_temperature |-> <<3000, 11000>>,
      egt                 |-> <<20000, 65000>>,
      oil_pressure        |-> <<0, 60000>>,
      fuel_pressure       |-> <<0, 250000>>,
      vibration           |-> <<0, 5000>>,
      rpm                 |-> <<60000, 220000>> ]

\* Each sensor of the row is a draw mean + std * z from the parameters of the
\* named regime, brought into the sensor's clamp range.
DrawnFromRegime(row, name) ==
    LET p     == CHOOSE c \in { STATE_CYCLE[i] : i \in 1..Len(STATE_CYCLE) } :
                     c.state = name
        table == Generators[mt]
    IN  \A s \in Sensors :
            \E k \in 1..Len(table) :
                LET x == p.sensors[s][1] + p.sensors[s][2] * table[k]
                IN  row[s] = IF x < ClampRange[s][1] THEN ClampRange[s][1]
                             ELSE IF x > ClampRange[s][2] THEN ClampRange[s][2]
                             ELSE x

AnomalyCount(row) ==
    Cardinality({ k \in HealthKeys :
                    \/ k = "oil_temperature" /\ row[k] > 10000
                    \/ k = "egt" /\ row[k] > 50000
                    \/ k = "vibration" /\ row[k] > 400
                    \/ k = "oil_pressure" /\ row[k] < 20000 })

\* C15: a run is one unit: the reading it appends is synthesized from the
\* regime selected in that same run, it is the last element of the history
\* after the run, and the health assessment the run shows is computed from
\* exactly that reading.
C15_TickIsOneUnit ==
    runs > 0 =>
        LET last == History[Len(History)]
            n    == AnomalyCount(last)
        IN  /\ Len(appended) = runs
            /\ last = appended[Len(appended)]
            /\ DrawnFromRegime(last, rendered.state)
            /\ rendered.page = "Monitoring" =>
                 /\ rendered.health = Assess([ k \in HealthKeys |-> last[k] ])
                 /\ rendered.health.status =
                      IF n >= 3 THEN "CRITICAL" ELSE IF n >= 1 THEN "DEGRADED"
                      ELSE "NORMAL"
                 /\ rendered.health.score =
                      IF n >= 3 THEN 90 ELSE IF n = 2 THEN 60
                      ELSE IF n = 1 THEN 45 ELSE 15

\* The third run on a full history: it selected DEGRADED, appended a reading
\* and showed that reading's health; the clock passed into the next regime
\* before the countdown was computed.
C15_Witness ==
    /\ runs = 3 /\ Len(History) = 1000
    /\ rendered.state = "DEGRADED" /\ rendered.page = "Monitoring"
    /\ rendered.health.status # "none"
    /\ rendered.elapsed = 50

\* C16: whenever a reading is classified CRITICAL (three or more thresholds
\* crossed, score 0.90), the recommendation derived from it by calculate_rul
\* and get_maintenance_recommendation is "Immediate maintenance required":
\* the band below 50 hours is reached through the pipeline.
C16_CriticalIsImmediate ==
    (Evaluated /\ assessment.status = "CRITICAL") =>
        /\ AnomalyCount([ k \in HealthKeys |-> dict_get(reading, k, 0) ]) >= 3
        /\ assessment.score = 90
        /\ FloatLess(assessment.rul, 50)
        /\ assessment.rec = "Immediate maintenance required"

\* A reading just past all four thresholds has been evaluated.
C16_Witness ==
    /\ reading = HealthDict(10001, 50001, 401, 19999)
    /\ assessment.status = "CRITICAL"
    /\ assessment.rul = Float(5000, -1)
    /\ assessment.rec = "Immediate maintenance required"

\* C17: within one run the regime shown and used for synthesis and the
\* countdown shown are consistent: the countdown is the time remaining in the
\* regime get_current_state_profile returned for that run, even though the
\* clock is read separately for each and may pass a boundary in between.
C17_CountdownMatchesRegime ==
    runs > 0 =>
        \E i \in 1..Len(STATE_CYCLE) :
            /\ STATE_CYCLE[i].state = rendered.state
            /\ rendered.elapsed >= SumDurations(i - 1)
            /\ rendered.elapsed < SumDurations(i)
            /\ rendered.remaining = SumDurations(i) - rendered.elapsed
====
